---- MODULE Spec2Model ----
(***************************************************************************)
(* Model of files/logstreamer.py: the OCI audit extractor.                 *)
(*   OciAuditStreamer.__init__ / _parse_date / _initialize_client          *)
(*   OciAuditStreamer._get_date_chunks      (range partitioner)            *)
(*   OciAuditStreamer.fetch_events_generator (lazy per-chunk fetcher)      *)
(*   stream_to_json_file                     (streaming JSON aggregator)   *)
(*   main                                                                  *)
(* Timestamps are whole seconds since 2000-01-01T00:00:00Z.  Text (event   *)
(* types, event names, the --eventfilter argument, the output file) is a   *)
(* sequence of tokens, each token a string.                                *)
(***************************************************************************)
EXTENDS Integers, Sequences, FiniteSets, TLC

(***************************************************************************)
(* Bounds of the model.                                                    *)
(***************************************************************************)
\* total number of events the remote service returns during one run
MaxEvents == 2
\* longest --eventfilter argument, in characters
MaxFilterLen == 3
\* day-of-month values tried for --startdate in SpecChunks
MaxStartDD == 3
\* day-of-month values tried for --enddate in SpecChunks (0 and 32 are no days)
MaxEndDD == 32

(***************************************************************************)
(* Program constants.                                                      *)
(***************************************************************************)
MAX_CHUNK_DAYS == 7
SecondsPerDay == 86400

(***************************************************************************)
(* Generic helpers.                                                        *)
(***************************************************************************)
Min(a, b) == IF a <= b THEN a ELSE b

\* all sequences over S of length at most n
SeqUpTo(S, n) == UNION {[1..k -> S] : k \in 0..n}

RECURSIVE Concat(_)
Concat(ss) == IF ss = <<>> THEN <<>> ELSE Head(ss) \o Concat(Tail(ss))

(***************************************************************************)
(* Dates.  A date argument is modelled by its three dot-separated numeric  *)
(* fields <<dd, mm, yy>>; strptime('%d.%m.%y') accepts it when the fields  *)
(* name a day of the calendar.                                             *)
(***************************************************************************)
Year(yy) == IF yy < 69 THEN 2000 + yy ELSE 1900 + yy

IsLeap(y) == (y % 4 = 0) /\ ((y % 100 # 0) \/ (y % 400 = 0))

DaysInMonth(mm, y) ==
    IF mm = 2 THEN (IF IsLeap(y) THEN 29 ELSE 28)
    ELSE IF mm \in {4, 6, 9, 11} THEN 30 ELSE 31

\* strptime raises ValueError exactly when this is FALSE
ValidDate(date_str) ==
    /\ date_str[3] \in 0..99
    /\ date_str[2] \in 1..12
    /\ date_str[1] \in 1..DaysInMonth(date_str[2], Year(date_str[3]))

RECURSIVE DaysBeforeMonth(_, _)
DaysBeforeMonth(mm, y) ==
    IF mm <= 1 THEN 0 ELSE DaysBeforeMonth(mm - 1, y) + DaysInMonth(mm - 1, y)

\* days from 2000-01-01 to the first of January of year y (1969..2068)
DaysBeforeYear(y) == 365 * (y - 2000) + ((y - 2000 + 3) \div 4)

\* _parse_date on a valid string: midnight UTC of that day
ParseDate(date_str) ==
    LET y == Year(date_str[3]) IN
    (DaysBeforeYear(y) + DaysBeforeMonth(date_str[2], y) + (date_str[1] - 1))
        * SecondsPerDay

\* line 75 left out: the range ends at midnight of the end day
EndOfDay_Midnight(date_str) == ParseDate(date_str)

\* self.end_dt: the last second of the end day
EndOfDay(date_str) == ParseDate(date_str) + SecondsPerDay - 1

(***************************************************************************)
(* _get_date_chunks                                                        *)
(***************************************************************************)
max_duration == MAX_CHUNK_DAYS * SecondsPerDay

ChunkEnd_3Days(current_start, end_dt) ==
    Min(current_start + 3 * SecondsPerDay, end_dt)

ChunkEnd_14Days(current_start, end_dt) ==
    Min(current_start + 14 * SecondsPerDay, end_dt)

ChunkEnd(current_start, end_dt) == Min(current_start + max_duration, end_dt)

NextStart_NextDay(chunk_end) == chunk_end + SecondsPerDay

NextStart(chunk_end) == chunk_end + 1

RECURSIVE ChunkLoop(_, _, _)
ChunkLoop(chunks, current_start, end_dt) ==
    IF ~(current_start <= end_dt) THEN chunks
    ELSE LET chunk_end == ChunkEnd(current_start, end_dt) IN
         IF chunk_end < current_start THEN chunks
         ELSE ChunkLoop(Append(chunks, <<current_start, chunk_end>>),
                        NextStart(chunk_end), end_dt)

GetDateChunks(start_dt, end_dt) == ChunkLoop(<<>>, start_dt, end_dt)

(***************************************************************************)
(* Event records and the filter.                                           *)
(***************************************************************************)
TypeChars == {"a", "b"}
FilterChars == {"a", ";"}

\* to_dict(item): the two fields the aggregator indexes
Event(type, name) == [data |-> [event_type |-> type, event_name |-> name]]

\* the events the remote service may hold
Events == {Event(<<"a">>, <<"x">>), Event(<<"b">>, <<"x">>), Event(<<"a">>, <<"y">>)}

\* str.split(';'): always at least one piece
RECURSIVE SplitFrom(_, _, _)
SplitFrom(s, p, cur) ==
    IF p > Len(s) THEN <<cur>>
    ELSE IF s[p] = ";" THEN <<cur>> \o SplitFrom(s, p + 1, <<>>)
    ELSE SplitFrom(s, p + 1, Append(cur, s[p]))

Split(s) == SplitFrom(s, 1, <<>>)

\* re.search(pattern, text) for a pattern without metacharacters: the pattern
\* occurs somewhere in the text
ReSearch(pattern, text) ==
    \E k \in 0..(Len(text) - Len(pattern)) :
        \A q \in 1..Len(pattern) : text[k + q] = pattern[q]

(***************************************************************************)
(* json.dumps(jitem, indent=2): the text of one element, as tokens.        *)
(***************************************************************************)
Quote(text) == <<"\"">> \o text \o <<"\"">>

Dumps_NoName(jitem) ==
    <<"{", "data:", "{", "event_type:">> \o Quote(jitem.data.event_type)
        \o <<",", "event_name:">> \o Quote(<<>>) \o <<"}", "}">>

Dumps(jitem) ==
    <<"{", "data:", "{", "event_type:">> \o Quote(jitem.data.event_type)
        \o <<",", "event_name:">> \o Quote(jitem.data.event_name) \o <<"}", "}">>

(***************************************************************************)
(* The body of the for loop of stream_to_json_file, piece by piece.        *)
(***************************************************************************)
Separator_Always(is_first) == <<",\n">>

\* lines 188-189: the separator, written before the item is looked at
Separator(is_first) == IF ~is_first THEN <<",\n">> ELSE <<>>

\* lines 200-205: the text written for one item by the loop over the patterns
RECURSIVE FilterLoop_NoBreak(_, _, _)
FilterLoop_NoBreak(filters, k, jitem) ==
    IF k > Len(filters) THEN <<>>
    ELSE IF ReSearch(filters[k], jitem.data.event_type)
         THEN Dumps(jitem) \o FilterLoop_NoBreak(filters, k + 1, jitem)
         ELSE FilterLoop_NoBreak(filters, k + 1, jitem)

RECURSIVE FilterLoop(_, _, _)
FilterLoop(filters, k, jitem) ==
    IF k > Len(filters) THEN <<>>
    ELSE IF ReSearch(filters[k], jitem.data.event_type) THEN Dumps(jitem)
    ELSE FilterLoop(filters, k + 1, jitem)

\* lines 196-205: the text written for one item
ItemText(eventfilter, jitem) ==
    IF ~eventfilter.given THEN Dumps(jitem)
    ELSE FilterLoop(Split(eventfilter.text), 1, jitem)

\* lines 209-213: the tally
Tally(all_events, event_value) ==
    IF event_value \in DOMAIN all_events
    THEN [all_events EXCEPT ![event_value] = @ + 1]
    ELSE [n \in DOMAIN all_events \cup {event_value} |->
            IF n = event_value THEN 0 ELSE all_events[n]]

\* lines 186-213 with the tally kept where the item is written
LoopBodyResult_TallyWritten(eventfilter, jitem, first, tally) ==
    LET text == ItemText(eventfilter, jitem) IN
    [written |-> Separator(first) \o text,
     is_first |-> first /\ text = <<>>,
     all_events |-> IF text = <<>> THEN tally
                    ELSE Tally(tally, jitem.data.event_name)]

\* lines 186-213: one pass of the loop body on jitem, without an I/O error
LoopBodyResult(eventfilter, jitem, first, tally) ==
    LET text == ItemText(eventfilter, jitem) IN
    [written |-> Separator(first) \o text,
     is_first |-> first /\ text = <<>>,
     all_events |-> Tally(tally, jitem.data.event_name)]

(***************************************************************************)
(* fetch_events_generator, lines 143-165: what one chunk contributes to    *)
(* the stream.  list_call_get_all_results returns every page or raises;    *)
(* the pages retrieved before a failure are dropped with the exception.    *)
(***************************************************************************)
ChunkEvents_KeepPartial(response) == response.data

ChunkEvents(response) == IF response.ok THEN response.data ELSE <<>>

(***************************************************************************)
(* State.                                                                  *)
(***************************************************************************)
VARIABLES
    args,            \* the parsed command line: startdate, enddate, eventfilter
    config_loadable, \* whether from_file / AuditClient succeed (environment)
    pc,              \* position of main / stream_to_json_file
    streamer,        \* <<>> or <<the OciAuditStreamer: start_dt, end_dt>>
    gen_pc,          \* position of the generator fetch_events_generator
    date_chunks,     \* generator local
    i,               \* generator local: number of chunks left behind
    list_data,       \* generator local: list_events_response.data
    j,               \* generator local: events of list_data yielded and resumed
    event_count,     \* generator local
    item,            \* <<>> or <<the item handed to the for loop>>
    is_first,        \* stream_to_json_file local
    all_events,      \* stream_to_json_file local: the tally
    out,             \* tokens written to the output file
    f_state,         \* the output file: "unopened", "open", "closed"
    allevents_json,  \* the file allevents.json
    printed,         \* what was printed
    exit_status,     \* <<>> while running, <<status>> once the process ended
    responses        \* history: outcome of every list_events call, in call order

\* startstop.py, a program of its own: the state of one run of its main
VARIABLES
    ss_args,         \* command line and config entry: action, list, config, nsg_name
    ss_pc,           \* position of startstop.main and of the functions it calls
    instance_id,     \* main local: <<>> before the lookup, then <<"None">> or <<ocid>>
    nsg_id,          \* main local
    vnic_id,         \* main local
    poll_i,          \* start_stop_instance local i
    lifecycle_state, \* <<>> or <<instance.lifecycle_state of the last poll>>
    nsg_ids,         \* the remote VNIC: whether the NSG is in vnic.nsg_ids
    calls,           \* history: the calls made on the SDK clients, in call order
    ss_return        \* <<>> while running, then <<what main returned>>

ls_vars == <<args, config_loadable, pc, streamer, gen_pc, date_chunks, i, list_data, j,
             event_count, item, is_first, all_events, out, f_state, allevents_json,
             printed, exit_status, responses>>

ss_vars == <<ss_args, ss_pc, instance_id, nsg_id, vnic_id, poll_i, lifecycle_state,
             nsg_ids, calls, ss_return>>

\* listresources.py, a program of its own: the state of one run of its main
VARIABLES
    lr_args,          \* command line and environment: resource, config
    compartment_tree, \* the remote compartments: n, shape, inactive
    lr_pc,            \* position of listresources.main
    totalProcessed,   \* the module global
    frames,           \* the active calls of listResources, outermost first
    processed         \* history: compartments handed to listFunction or printed

lr_vars == <<lr_args, compartment_tree, lr_pc, totalProcessed, frames, processed>>

vars == <<ls_vars, ss_vars, lr_vars>>

\* listresources.py is not run
LRIdle ==
    /\ lr_args = <<>>
    /\ compartment_tree = <<>>
    /\ lr_pc = "idle"
    /\ totalProcessed = 0
    /\ frames = <<>>
    /\ processed = <<>>

\* startstop.py is not run
SSIdle ==
    /\ ss_args = <<>>
    /\ ss_pc = "idle"
    /\ instance_id = <<>>
    /\ nsg_id = <<>>
    /\ vnic_id = <<>>
    /\ poll_i = 0
    /\ lifecycle_state = <<>>
    /\ nsg_ids = FALSE
    /\ calls = <<>>
    /\ ss_return = <<>>

gen_vars == <<gen_pc, date_chunks, i, list_data, j, event_count, responses>>
agg_vars == <<is_first, all_events, out, f_state, allevents_json>>
env_vars == <<args, config_loadable>>

NoFilter == [given |-> FALSE, text |-> <<>>]
EventFilters ==
    {NoFilter} \cup {[given |-> TRUE, text |-> t] : t \in SeqUpTo(FilterChars, MaxFilterLen)}

\* dates of the full pipeline: ranges of no, one, two and three chunks, and two
\* strings strptime rejects
StartDates == {<<1, 1, 25>>, <<30, 2, 25>>}
EndDates == {<<31, 12, 24>>, <<1, 1, 25>>, <<8, 1, 25>>, <<15, 1, 25>>, <<1, 13, 25>>}

\* dates of the partitioner alone
StartDatesWide == {<<dd, 1, 25>> : dd \in 1..MaxStartDD}
EndDatesWide == {<<dd, mm, 25>> : dd \in 0..MaxEndDD, mm \in 1..2}

\* logstreamer.py before main runs
LSInit(starts, ends, eventfilters) ==
    /\ args \in [startdate : starts, enddate : ends, eventfilter : eventfilters]
    /\ config_loadable \in BOOLEAN
    /\ pc = "main"
    /\ streamer = <<>>
    /\ gen_pc = "none"
    /\ date_chunks = <<>>
    /\ i = 0
    /\ list_data = <<>>
    /\ j = 0
    /\ event_count = 0
    /\ item = <<>>
    /\ is_first = TRUE
    /\ all_events = <<>>
    /\ out = <<>>
    /\ f_state = "unopened"
    /\ allevents_json = [written |-> FALSE, content |-> <<>>]
    /\ printed = <<>>
    /\ exit_status = <<>>
    /\ responses = <<>>

InitWith(starts, ends, eventfilters) ==
    /\ LSInit(starts, ends, eventfilters)
    /\ SSIdle
    /\ LRIdle

Init == InitWith(StartDates, EndDates, EventFilters)

InitChunks == InitWith(StartDatesWide, EndDatesWide, {NoFilter})

\* runs without a filter and with the one-pattern filter "a"
InitFair ==
    InitWith(StartDates, EndDates, {NoFilter, [given |-> TRUE, text |-> <<"a">>]})

(***************************************************************************)
(* main, lines 252-262: the constructor and its three fatal errors.        *)
(***************************************************************************)
\* _parse_date raises ValueError: print, sys.exit(1)
ParseDateFails ==
    /\ pc = "main"
    /\ ~ValidDate(args.startdate) \/ ~ValidDate(args.enddate)
    /\ printed' = Append(printed, "date_format_error")
    /\ pc' = "SystemExit"
    /\ UNCHANGED <<streamer, item, exit_status>>
    /\ UNCHANGED <<gen_vars, agg_vars, env_vars>>
    /\ UNCHANGED <<ss_vars, lr_vars>>

\* _initialize_client: from_file or AuditClient raises: print, sys.exit(1)
InitializeClientFails ==
    /\ pc = "main"
    /\ ValidDate(args.startdate) /\ ValidDate(args.enddate)
    /\ ~config_loadable
    /\ printed' = Append(printed, "client_init_error")
    /\ pc' = "SystemExit"
    /\ UNCHANGED <<streamer, item, exit_status>>
    /\ UNCHANGED <<gen_vars, agg_vars, env_vars>>
    /\ UNCHANGED <<ss_vars, lr_vars>>

\* __init__ returns; main creates the generator (no line of its body runs yet)
Construct ==
    /\ pc = "main"
    /\ ValidDate(args.startdate) /\ ValidDate(args.enddate)
    /\ config_loadable
    /\ streamer' = <<[start_dt |-> ParseDate(args.startdate),
                      end_dt |-> EndOfDay(args.enddate)]>>
    /\ gen_pc' = "created"
    /\ pc' = "stream_to_json_file"
    /\ UNCHANGED <<date_chunks, i, list_data, j, event_count, responses>>
    /\ UNCHANGED <<item, printed, exit_status>>
    /\ UNCHANGED <<agg_vars, env_vars>>
    /\ UNCHANGED <<ss_vars, lr_vars>>

\* lines 260-262 with the except clause passing instead of returning
CatchSystemExit_Continue ==
    /\ pc = "SystemExit"
    /\ pc' = "stream_to_json_file"
    /\ exit_status' = <<0>>
    /\ UNCHANGED <<streamer, item, printed>>
    /\ UNCHANGED <<gen_vars, agg_vars, env_vars>>
    /\ UNCHANGED <<ss_vars, lr_vars>>

\* main, lines 260-262: SystemExit is caught and main returns normally
CatchSystemExit ==
    /\ pc = "SystemExit"
    /\ pc' = "CONFIG_EXIT"
    /\ exit_status' = <<0>>
    /\ UNCHANGED <<streamer, item, printed>>
    /\ UNCHANGED <<gen_vars, agg_vars, env_vars>>
    /\ UNCHANGED <<ss_vars, lr_vars>>

(***************************************************************************)
(* stream_to_json_file, lines 175-185: split the filter, open, write '['.  *)
(***************************************************************************)
OpenOutput ==
    /\ pc = "stream_to_json_file"
    /\ printed' = Append(printed, "writing_results")
    /\ all_events' = <<>>
    /\ f_state' = "open"
    /\ out' = <<"[\n">>
    /\ is_first' = TRUE
    /\ pc' = "for_next"
    /\ UNCHANGED <<streamer, item, exit_status, allevents_json>>
    /\ UNCHANGED <<gen_vars, env_vars>>
    /\ UNCHANGED <<ss_vars, lr_vars>>

\* open() or the first write raises IOError: lines 225-226, then main returns
OpenOutputIOError ==
    /\ pc = "stream_to_json_file"
    /\ \E opened \in BOOLEAN :
          /\ f_state' = IF opened THEN "closed" ELSE "unopened"
          /\ out' = <<>>
    /\ printed' = printed \o <<"writing_results", "io_error">>
    /\ all_events' = <<>>
    /\ pc' = "ABORTED"
    /\ exit_status' = <<0>>
    /\ UNCHANGED <<streamer, item, is_first, allevents_json>>
    /\ UNCHANGED <<gen_vars, env_vars>>
    /\ UNCHANGED <<ss_vars, lr_vars>>

(***************************************************************************)
(* fetch_events_generator.  It runs only while the for loop of             *)
(* stream_to_json_file waits in next() (pc = "for_next").                  *)
(***************************************************************************)
\* lines 133-138: the first next() runs the body up to the chunk loop
GenStart ==
    /\ pc = "for_next" /\ gen_pc = "created"
    /\ date_chunks' = GetDateChunks(streamer[1].start_dt, streamer[1].end_dt)
    /\ i' = 0
    /\ event_count' = 0
    /\ printed' = printed \o <<"total_time_range", "fetching_in_chunks">>
    /\ gen_pc' = "for_chunk"
    /\ UNCHANGED <<list_data, j, responses>>
    /\ UNCHANGED <<pc, streamer, item, exit_status>>
    /\ UNCHANGED <<agg_vars, env_vars>>
    /\ UNCHANGED <<ss_vars, lr_vars>>

\* events the service has handed out so far, over all calls
Served == Len(Concat([k \in 1..Len(responses) |-> responses[k].data]))

\* lines 140-150: one list_call_get_all_results call.  It returns all pages
\* (ok) or raises after retrieving some of them.
FetchChunk ==
    /\ pc = "for_next" /\ gen_pc = "for_chunk"
    /\ i < Len(date_chunks)
    /\ \E ok \in BOOLEAN, data \in SeqUpTo(Events, MaxEvents - Served) :
          LET response == [ok |-> ok, data |-> data, chunk |-> i + 1] IN
          /\ responses' = Append(responses, response)
          /\ list_data' = ChunkEvents(response)
    /\ j' = 0
    /\ printed' = Append(printed, "processing_chunk")
    /\ gen_pc' = "in_chunk"
    /\ UNCHANGED <<date_chunks, i, event_count>>
    /\ UNCHANGED <<pc, streamer, item, exit_status>>
    /\ UNCHANGED <<agg_vars, env_vars>>
    /\ UNCHANGED <<ss_vars, lr_vars>>

\* lines 152-154 with the generator free to leave the chunk before its last event
YieldEvent_OrSkip ==
    /\ pc = "for_next" /\ gen_pc = "in_chunk"
    /\ j < Len(list_data)
    /\ \/ /\ item' = <<list_data[j + 1]>>
          /\ gen_pc' = "yielded"
          /\ pc' = "body"
          /\ UNCHANGED <<i, list_data, j>>
       \/ /\ i' = i + 1
          /\ list_data' = <<>>
          /\ j' = 0
          /\ gen_pc' = "for_chunk"
          /\ UNCHANGED <<pc, item>>
    /\ UNCHANGED <<date_chunks, event_count, responses>>
    /\ UNCHANGED <<streamer, printed, exit_status>>
    /\ UNCHANGED <<agg_vars, env_vars>>
    /\ UNCHANGED <<ss_vars, lr_vars>>

\* lines 152-154: yield the next event to the for loop
YieldEvent ==
    /\ pc = "for_next" /\ gen_pc = "in_chunk"
    /\ j < Len(list_data)
    /\ item' = <<list_data[j + 1]>>
    /\ gen_pc' = "yielded"
    /\ pc' = "body"
    /\ UNCHANGED <<date_chunks, i, list_data, j, event_count, responses>>
    /\ UNCHANGED <<streamer, printed, exit_status>>
    /\ UNCHANGED <<agg_vars, env_vars>>
    /\ UNCHANGED <<ss_vars, lr_vars>>

\* line 155: the generator is resumed by the next next()
ResumeAfterYield ==
    /\ pc = "for_next" /\ gen_pc = "yielded"
    /\ j' = j + 1
    /\ event_count' = event_count + 1
    /\ gen_pc' = "in_chunk"
    /\ UNCHANGED <<date_chunks, i, list_data, responses>>
    /\ UNCHANGED <<pc, streamer, item, printed, exit_status>>
    /\ UNCHANGED <<agg_vars, env_vars>>
    /\ UNCHANGED <<ss_vars, lr_vars>>

\* lines 157-165 with the handlers leaving the chunk loop instead of continuing
EndChunk_StopOnError ==
    /\ pc = "for_next" /\ gen_pc = "in_chunk"
    /\ j = Len(list_data)
    /\ printed' = Append(printed, IF responses[Len(responses)].ok
                                  THEN "chunk_completed" ELSE "chunk_error")
    /\ i' = IF responses[Len(responses)].ok THEN i + 1 ELSE Len(date_chunks)
    /\ list_data' = <<>>
    /\ j' = 0
    /\ gen_pc' = "for_chunk"
    /\ UNCHANGED <<date_chunks, event_count, responses>>
    /\ UNCHANGED <<pc, streamer, item, exit_status>>
    /\ UNCHANGED <<agg_vars, env_vars>>
    /\ UNCHANGED <<ss_vars, lr_vars>>

\* lines 157-165: the chunk is over, completed or failed; on to the next one
EndChunk ==
    /\ pc = "for_next" /\ gen_pc = "in_chunk"
    /\ j = Len(list_data)
    /\ printed' = Append(printed, IF responses[Len(responses)].ok
                                  THEN "chunk_completed" ELSE "chunk_error")
    /\ i' = i + 1
    /\ list_data' = <<>>
    /\ j' = 0
    /\ gen_pc' = "for_chunk"
    /\ UNCHANGED <<date_chunks, event_count, responses>>
    /\ UNCHANGED <<pc, streamer, item, exit_status>>
    /\ UNCHANGED <<agg_vars, env_vars>>
    /\ UNCHANGED <<ss_vars, lr_vars>>

\* line 140 with the loop leaving out the last chunk
GenReturn_SkipLast ==
    /\ pc = "for_next" /\ gen_pc = "for_chunk"
    /\ i = Len(date_chunks) \/ i = Len(date_chunks) - 1
    /\ printed' = Append(printed, "fetch_complete")
    /\ gen_pc' = "finished"
    /\ pc' = "after_loop"
    /\ UNCHANGED <<date_chunks, i, list_data, j, event_count, responses>>
    /\ UNCHANGED <<streamer, item, exit_status>>
    /\ UNCHANGED <<agg_vars, env_vars>>
    /\ UNCHANGED <<ss_vars, lr_vars>>

\* line 167: no chunk left, the generator returns and the for loop ends
GenReturn ==
    /\ pc = "for_next" /\ gen_pc = "for_chunk"
    /\ i = Len(date_chunks)
    /\ printed' = Append(printed, "fetch_complete")
    /\ gen_pc' = "finished"
    /\ pc' = "after_loop"
    /\ UNCHANGED <<date_chunks, i, list_data, j, event_count, responses>>
    /\ UNCHANGED <<streamer, item, exit_status>>
    /\ UNCHANGED <<agg_vars, env_vars>>
    /\ UNCHANGED <<ss_vars, lr_vars>>

(***************************************************************************)
(* stream_to_json_file, lines 186-228.                                     *)
(***************************************************************************)
\* lines 186-213: the loop body on the item just yielded
LoopBody ==
    /\ pc = "body"
    /\ LET r == LoopBodyResult(args.eventfilter, item[1], is_first, all_events) IN
          /\ out' = out \o r.written
          /\ is_first' = r.is_first
          /\ all_events' = r.all_events
    /\ item' = <<>>
    /\ pc' = "for_next"
    /\ UNCHANGED <<f_state, allevents_json>>
    /\ UNCHANGED <<streamer, printed, exit_status>>
    /\ UNCHANGED <<gen_vars, env_vars>>
    /\ UNCHANGED <<ss_vars, lr_vars>>

\* lines 225-226 with the handler inside the for loop: the loop goes on
LoopBodyIOError_Continue ==
    /\ pc = "body"
    /\ \E point \in {"separator", "item"} :
          /\ point = "separator" => ~is_first
          /\ point = "item" => ItemText(args.eventfilter, item[1]) # <<>>
          /\ out' = IF point = "separator" THEN out ELSE out \o Separator(is_first)
    /\ f_state' = "open"
    /\ printed' = Append(printed, "io_error")
    /\ pc' = "for_next"
    /\ exit_status' = exit_status
    /\ UNCHANGED <<is_first, all_events, allevents_json>>
    /\ UNCHANGED <<streamer, item>>
    /\ UNCHANGED <<gen_vars, env_vars>>
    /\ UNCHANGED <<ss_vars, lr_vars>>

\* a write of the loop body raises IOError: the with block closes the file,
\* lines 225-226 print, the function and main return
LoopBodyIOError ==
    /\ pc = "body"
    /\ \E point \in {"separator", "item"} :
          /\ point = "separator" => ~is_first
          /\ point = "item" => ItemText(args.eventfilter, item[1]) # <<>>
          /\ out' = IF point = "separator" THEN out ELSE out \o Separator(is_first)
    /\ f_state' = "closed"
    /\ printed' = Append(printed, "io_error")
    /\ pc' = "ABORTED"
    /\ exit_status' = <<0>>
    /\ UNCHANGED <<is_first, all_events, allevents_json>>
    /\ UNCHANGED <<streamer, item>>
    /\ UNCHANGED <<gen_vars, env_vars>>
    /\ UNCHANGED <<ss_vars, lr_vars>>

\* lines 214-221: newline after the last element, closing bracket, close
CloseArray ==
    /\ pc = "after_loop"
    /\ out' = out \o (IF ~is_first THEN <<"\n">> ELSE <<>>) \o <<"]\n">>
    /\ f_state' = "closed"
    /\ printed' = Append(printed, "successfully_streamed")
    /\ pc' = "persist"
    /\ UNCHANGED <<is_first, all_events, allevents_json>>
    /\ UNCHANGED <<streamer, item, exit_status>>
    /\ UNCHANGED <<gen_vars, env_vars>>
    /\ UNCHANGED <<ss_vars, lr_vars>>

\* one of the closing writes raises IOError
CloseArrayIOError ==
    /\ pc = "after_loop"
    /\ \E point \in {"newline", "bracket"} :
          /\ point = "newline" => ~is_first
          /\ out' = IF point = "bracket" /\ ~is_first THEN Append(out, "\n") ELSE out
    /\ f_state' = "closed"
    /\ printed' = Append(printed, "io_error")
    /\ pc' = "ABORTED"
    /\ exit_status' = <<0>>
    /\ UNCHANGED <<is_first, all_events, allevents_json>>
    /\ UNCHANGED <<streamer, item>>
    /\ UNCHANGED <<gen_vars, env_vars>>
    /\ UNCHANGED <<ss_vars, lr_vars>>

\* lines 222-224: write the tally to allevents.json; main returns
PersistTally ==
    /\ pc = "persist"
    /\ allevents_json' = [written |-> TRUE, content |-> all_events]
    /\ pc' = "DONE"
    /\ exit_status' = <<0>>
    /\ UNCHANGED <<is_first, all_events, out, f_state>>
    /\ UNCHANGED <<streamer, item, printed>>
    /\ UNCHANGED <<gen_vars, env_vars>>
    /\ UNCHANGED <<ss_vars, lr_vars>>

\* opening or writing allevents.json raises IOError
PersistTallyIOError ==
    /\ pc = "persist"
    /\ printed' = Append(printed, "io_error")
    /\ pc' = "ABORTED"
    /\ exit_status' = <<0>>
    /\ UNCHANGED <<agg_vars, env_vars>>
    /\ UNCHANGED <<streamer, item>>
    /\ UNCHANGED gen_vars
    /\ UNCHANGED <<ss_vars, lr_vars>>

(***************************************************************************)
(* Specifications.                                                         *)
(***************************************************************************)
Next ==
    \/ ParseDateFails
    \/ InitializeClientFails
    \/ Construct
    \/ CatchSystemExit
    \/ OpenOutput
    \/ OpenOutputIOError
    \/ GenStart
    \/ FetchChunk
    \/ YieldEvent
    \/ ResumeAfterYield
    \/ EndChunk
    \/ GenReturn
    \/ LoopBody
    \/ LoopBodyIOError
    \/ CloseArray
    \/ CloseArrayIOError
    \/ PersistTally
    \/ PersistTallyIOError

\* the whole program
Spec == Init /\ [][Next]_vars

\* the program given that every call it makes returns
FairSpec == InitFair /\ [][Next]_vars /\ WF_vars(Next)

\* the program up to the partitioning, over a wide range of dates
NextChunks ==
    \/ ParseDateFails
    \/ InitializeClientFails
    \/ Construct
    \/ CatchSystemExit
    \/ OpenOutput
    \/ OpenOutputIOError
    \/ GenStart

SpecChunks == InitChunks /\ [][NextChunks]_vars

(***************************************************************************)
(* Reading the output file back (json.loads on the tokens of the file).    *)
(***************************************************************************)
Tok(f, p) == IF p \in 1..Len(f) THEN f[p] ELSE "EOF"

Invalid == [ok |-> FALSE, next |-> 0, val |-> <<>>]

\* position of the closing quote of the string whose first character is at p
RECURSIVE StringEnd(_, _)
StringEnd(f, p) ==
    IF p > Len(f) THEN 0
    ELSE IF f[p] = "\"" THEN p
    ELSE StringEnd(f, p + 1)

ParseString(f, p) ==
    IF Tok(f, p) # "\"" THEN Invalid
    ELSE LET e == StringEnd(f, p + 1) IN
         IF e = 0 THEN Invalid
         ELSE [ok |-> TRUE, next |-> e + 1, val |-> SubSeq(f, p + 1, e - 1)]

IsComma(t) == t \in {",", ",\n"}

\* one element: {"data": {"event_type": string, "event_name": string}}
ParseObject(f, p) ==
    IF ~(/\ Tok(f, p) = "{" /\ Tok(f, p + 1) = "data:"
         /\ Tok(f, p + 2) = "{" /\ Tok(f, p + 3) = "event_type:")
    THEN Invalid
    ELSE LET t == ParseString(f, p + 4) IN
         IF ~(t.ok /\ IsComma(Tok(f, t.next)) /\ Tok(f, t.next + 1) = "event_name:")
         THEN Invalid
         ELSE LET n == ParseString(f, t.next + 2) IN
              IF ~(n.ok /\ Tok(f, n.next) = "}" /\ Tok(f, n.next + 1) = "}")
              THEN Invalid
              ELSE [ok |-> TRUE, next |-> n.next + 2, val |-> Event(t.val, n.val)]

\* the rest of an array; st tells what may come next:
\*   "first" an element or ']', "elem" an element, "sep" a comma or ']'
RECURSIVE ArrayRest(_, _, _, _)
ArrayRest(f, p, acc, st) ==
    LET t == Tok(f, p) IN
    IF t = "\n" THEN ArrayRest(f, p + 1, acc, st)
    ELSE IF t = "{" /\ st \in {"first", "elem"}
         THEN LET o == ParseObject(f, p) IN
              IF o.ok THEN ArrayRest(f, o.next, Append(acc, o.val), "sep")
              ELSE Invalid
    ELSE IF t = "]\n" /\ st \in {"first", "sep"}
         THEN IF p = Len(f) THEN [ok |-> TRUE, next |-> p + 1, val |-> acc]
              ELSE Invalid
    ELSE IF IsComma(t) /\ st = "sep" THEN ArrayRest(f, p + 1, acc, "elem")
    ELSE Invalid

\* json.loads of the whole file: ok iff the file is one JSON array
Loads(f) == IF Tok(f, 1) = "[\n" THEN ArrayRest(f, 2, <<>>, "first") ELSE Invalid

\* the elements that occur in the file, in order, whatever lies between them
RECURSIVE ObjectsFrom(_, _)
ObjectsFrom(f, p) ==
    IF p > Len(f) THEN <<>>
    ELSE LET o == ParseObject(f, p) IN
         IF o.ok THEN <<o.val>> \o ObjectsFrom(f, o.next)
         ELSE ObjectsFrom(f, p + 1)

ObjectsIn(f) == ObjectsFrom(f, 1)

(***************************************************************************)
(* Vocabulary of the properties.                                           *)
(***************************************************************************)
Partitioned == gen_pc \notin {"none", "created"}

\* the array was closed by lines 214-219 (no I/O error on the way)
ArrayClosed == pc \in {"persist", "DONE"}

\* the events of the windows whose fetch succeeded, in window order
SucceededData ==
    Concat([k \in 1..Len(responses) |->
              IF responses[k].ok THEN responses[k].data ELSE <<>>])

AllSucceeded == \A k \in 1..Len(responses) : responses[k].ok

\* the type of ev matches at least one of the supplied patterns
MatchesSomePattern(ev) ==
    \E k \in 1..Len(Split(args.eventfilter.text)) :
        ReSearch(Split(args.eventfilter.text)[k], ev.data.event_type)

Selected(ev) == ~args.eventfilter.given \/ MatchesSomePattern(ev)

Occurrences(name, stream) ==
    Cardinality({k \in 1..Len(stream) : stream[k].data.event_name = name})

NamesIn(stream) == {stream[k].data.event_name : k \in 1..Len(stream)}

\* position p of f holds the array separator
IsSeparator(f, p) == Tok(f, p) = ",\n"

(***************************************************************************)
(* Claims.                                                                 *)
(***************************************************************************)
\* C1: once the array is closed, every separator written stands between two
\* written elements (no leading comma, no trailing comma before the closing
\* bracket, no two commas in a row), so the file reads back as one JSON array,
\* for every stream and every filter.
C1_CommasOnlyBetweenElements ==
    ArrayClosed =>
        /\ \A p \in 1..Len(out) :
              IsSeparator(out, p) => Tok(out, p - 1) = "}" /\ Tok(out, p + 1) = "{"
        /\ Loads(out).ok

\* C2: at the end of a run the persisted tally maps every event name of the
\* observed stream to its number of occurrences, and has no other key.
C2_TallyCountsOccurrences ==
    pc = "DONE" =>
        /\ allevents_json.written
        /\ allevents_json.content =
              [n \in NamesIn(SucceededData) |-> Occurrences(n, SucceededData)]

\* C3: after a fatal configuration error (a date strptime rejects, a config
\* that cannot be loaded) a message was printed and the process ended with a
\* non-zero exit status.
C3_ConfigErrorExitsNonZero ==
    pc = "CONFIG_EXIT" => Len(printed) > 0 /\ exit_status # <<>> /\ exit_status[1] # 0

\* C4: for start <= end the windows of _get_date_chunks are ordered, contiguous
\* and non-overlapping and cover the range exactly: the first starts at start,
\* each later one starts one second after the end of the one before, the last
\* ends at end.
C4_ChunksPartitionRange ==
    (Partitioned /\ streamer[1].start_dt <= streamer[1].end_dt) =>
        /\ Len(date_chunks) >= 1
        /\ date_chunks[1][1] = streamer[1].start_dt
        /\ \A k \in 1..(Len(date_chunks) - 1) :
              /\ date_chunks[k + 1][1] = date_chunks[k][2] + 1
              /\ date_chunks[k][1] < date_chunks[k + 1][1]
        /\ date_chunks[Len(date_chunks)][2] = streamer[1].end_dt

\* C4 witness: a range that was split into at least three windows
C4_Witness ==
    /\ Partitioned
    /\ streamer[1].start_dt <= streamer[1].end_dt
    /\ Len(date_chunks) >= 3

\* C5: every window of _get_date_chunks has chunk_start <= chunk_end and lasts
\* at most MAX_CHUNK_DAYS days.
C5_ChunksWithinMaxDuration ==
    Partitioned =>
        \A k \in 1..Len(date_chunks) :
            /\ date_chunks[k][1] <= date_chunks[k][2]
            /\ date_chunks[k][2] - date_chunks[k][1] <= MAX_CHUNK_DAYS * SecondsPerDay

\* C5 witness: a window of the full MAX_CHUNK_DAYS days followed by a shorter one
C5_Witness ==
    /\ Partitioned
    /\ Len(date_chunks) >= 2
    /\ date_chunks[1][2] - date_chunks[1][1] = MAX_CHUNK_DAYS * SecondsPerDay
    /\ date_chunks[Len(date_chunks)][2] - date_chunks[Len(date_chunks)][1]
          < MAX_CHUNK_DAYS * SecondsPerDay

\* C6: whichever windows fail, the closed array holds exactly the records of
\* the windows whose fetch succeeded, windows in chronological order and each
\* window's records in the order received, and nothing of a failed window.
\* (Of those records the array holds the ones the filter selects: all of them
\* when no filter is supplied, and then the file reads back as that sequence.)
C6_OnlySucceededWindows ==
    ArrayClosed =>
        /\ ObjectsIn(out) = SelectSeq(SucceededData, Selected)
        /\ ~args.eventfilter.given =>
              Loads(out).ok /\ Loads(out).val = SucceededData

\* C6 witness: window 2 of 3 failed after the service had handed out records;
\* the array holds the records of the other windows only
C6_Witness ==
    /\ ArrayClosed
    /\ ~args.eventfilter.given
    /\ Len(responses) = 3
    /\ ~responses[2].ok /\ responses[2].data # <<>>
    /\ responses[1].ok /\ responses[3].ok
    /\ SucceededData # <<>>
    /\ Loads(out).val = SucceededData

\* C7: one pass of the loop body appends the record to the elements of the
\* file exactly once if the filter selects it (no patterns supplied, or its
\* type matches at least one pattern, however many match) and not at all
\* otherwise; the elements written before stay in place.
C7_WrittenIffMatches ==
    [][(pc = "body" /\ pc' = "for_next") =>
          ObjectsIn(out') =
              ObjectsIn(out) \o (IF Selected(item[1]) THEN <<item[1]>> ELSE <<>>)]_vars

\* C7 witness: with two patterns supplied, one record matched by both was
\* written once and one record matched by none was left out
C7_Witness ==
    /\ ArrayClosed
    /\ args.eventfilter.given
    /\ Len(Split(args.eventfilter.text)) = 2
    /\ Len(SucceededData) = 2
    /\ \A k \in 1..2 : ReSearch(Split(args.eventfilter.text)[k],
                                SucceededData[1].data.event_type)
    /\ ~Selected(SucceededData[2])
    /\ ObjectsIn(out) = <<SucceededData[1]>>

\* C8: when every fetch succeeded and no filter is supplied, the closed file
\* reads back as exactly the records received: as many as the service handed
\* out over all windows, in window order and received order, field for field.
C8_RoundTrip ==
    (ArrayClosed /\ AllSucceeded /\ ~args.eventfilter.given) =>
        /\ Loads(out).ok
        /\ Len(Loads(out).val) = Served
        /\ Loads(out).val = Concat([k \in 1..Len(responses) |-> responses[k].data])

\* C8 witness: two windows with a record each, both read back
C8_Witness ==
    /\ ArrayClosed /\ AllSucceeded /\ ~args.eventfilter.given
    /\ Len(responses) >= 2
    /\ responses[1].data # <<>> /\ responses[2].data # <<>>
    /\ responses[1].data # responses[2].data
    /\ Len(Loads(out).val) = 2

\* C9: the persisted tally depends on the observed stream alone, not on the
\* filter: every name of an observed record is a key, written or not, and the
\* value kept for it is the one the stream fixes (the code keeps one less than
\* the number of occurrences).
C9_TallyIgnoresFilter ==
    pc = "DONE" =>
        allevents_json.content =
            [n \in NamesIn(SucceededData) |-> Occurrences(n, SucceededData) - 1]

\* C9 witness: a filter is supplied, a record it rejects was observed, and the
\* name of that record, which no written element carries, is in the tally
C9_Witness ==
    /\ pc = "DONE"
    /\ args.eventfilter.given
    /\ ObjectsIn(out) # <<>>
    /\ \E k \in 1..Len(SucceededData) :
          /\ ~Selected(SucceededData[k])
          /\ SucceededData[k].data.event_name \in DOMAIN allevents_json.content
          /\ SucceededData[k].data.event_name \notin NamesIn(ObjectsIn(out))

\* the run was cut short by an I/O error on one of its two files
IOAborted == pc = "ABORTED" /\ printed[Len(printed)] = "io_error"

\* the run reached DONE: every window attempted, array closed, tally persisted
DoneComplete ==
    /\ pc = "DONE"
    /\ Len(responses) = Len(date_chunks)
    /\ out[Len(out)] = "]\n"
    /\ f_state = "closed"
    /\ allevents_json.written
    /\ allevents_json.content = all_events

\* C10: with a valid configuration, whatever windows fail to be fetched, the
\* run goes on to attempt every window and reaches DONE with the closing
\* bracket written, the output file closed and the tally persisted (unless an
\* I/O error on the files cuts it short).
C10_RunCompletes == (pc = "stream_to_json_file") ~> (IOAborted \/ DoneComplete)

\* C10 witness: a run of three windows, the first two failed, reached DONE
C10_Witness ==
    /\ DoneComplete
    /\ Len(responses) = 3
    /\ ~responses[1].ok /\ ~responses[2].ok /\ responses[3].ok

\* position of the run in the order of its phases
PhaseRank ==
    IF pc \in {"main", "SystemExit", "stream_to_json_file"} THEN 0
    ELSE IF pc \in {"for_next", "body"} /\ ~Partitioned THEN 1
    ELSE IF pc \in {"for_next", "body"} THEN 2
    ELSE IF pc \in {"after_loop", "persist"} THEN 3
    ELSE IF pc = "DONE" THEN 4
    ELSE 5

\* finalization comes only after the last window was processed
FinalizedAfterLastWindow ==
    pc \in {"after_loop", "persist", "DONE"} =>
        /\ gen_pc = "finished"
        /\ i = Len(date_chunks)
        /\ Len(responses) = Len(date_chunks)
        /\ item = <<>>

\* what holds of the phases in every state the code reaches
PhaseFacts ==
    /\ Partitioned => f_state # "unopened" /\ out # <<>>
    /\ (responses # <<>> \/ item # <<>> \/ Len(out) > 1 \/ all_events # <<>>)
          => Partitioned
    /\ pc = "body" => gen_pc = "yielded" /\ item # <<>>
    /\ FinalizedAfterLastWindow
    /\ pc = "DONE" => f_state = "closed" /\ allevents_json.written

\* C11: a run goes through its phases in order and never back: INIT, then the
\* output file is opened and '[' written, then the range is partitioned (at
\* the first pull from the generator) before any window is fetched and before
\* any record is written or tallied, then fetching interleaved per record
\* with aggregating, then FINALIZING only after the last window was
\* processed, then DONE with the file closed and the tally written.
C11_PhaseOrder == [][PhaseFacts' /\ PhaseRank' >= PhaseRank]_vars

\* C11 as stated: the range is partitioned before the output file is opened
\* or written, and finalization comes only after the last window
C11_PartitionBeforeOpen ==
    /\ (f_state # "unopened" \/ out # <<>>) => Partitioned
    /\ FinalizedAfterLastWindow

\* C11 witness: a run of two windows with a record written reached DONE
C11_Witness ==
    /\ pc = "DONE"
    /\ Len(date_chunks) = 2
    /\ Len(responses) = 2
    /\ ObjectsIn(out) # <<>>

RECURSIVE SumOver(_, _)
SumOver(S, f) ==
    IF S = {} THEN 0
    ELSE LET n == CHOOSE n \in S : TRUE IN (f[n] + 1) + SumOver(S \ {n}, f)

\* number of passes of the loop body so far, read off the tally (each pass
\* adds a key holding 0 or adds 1 to a key)
Consumed == SumOver(DOMAIN all_events, all_events)

\* this step issues a list_events call
FetchStep == Len(responses') = Len(responses) + 1

\* C12: windows are fetched one at a time in chronological order, each once,
\* and only on a pull of the aggregator: when the fetch of window k+1 is
\* issued the aggregator waits in next() holding no record, and every record
\* of the windows fetched before was yielded to it and went through the
\* loop body.
C12_PullOneWindowAtATime ==
    [][FetchStep =>
          /\ pc = "for_next" /\ item = <<>>
          /\ responses'[Len(responses')].chunk = Len(responses) + 1
          /\ \A k \in 1..Len(responses) : responses'[k] = responses[k]
          /\ \A k \in 1..Len(responses) :
                date_chunks[k][2] < date_chunks[Len(responses) + 1][1]
          /\ event_count = Len(SucceededData)
          /\ Consumed = Len(SucceededData)]_vars

\* C12 witness: the second window has just been fetched, after both records
\* of the first went through the loop body
C12_Witness ==
    /\ Len(responses) = 2
    /\ responses[1].ok /\ Len(responses[1].data) = 2
    /\ gen_pc = "in_chunk" /\ j = 0
    /\ Consumed = 2

Reported(tag) == \E n \in DOMAIN printed : printed[n] = tag

ConfigErrorReported ==
    Reported("date_format_error") \/ Reported("client_init_error")

\* C13: after a configuration error (a date that does not parse, a config
\* file that does not load) no list_events request is issued and neither the
\* output file nor the tally file is opened or written.
C13_ConfigErrorBeforeAnyCall ==
    ConfigErrorReported =>
        /\ responses = <<>>
        /\ gen_pc = "none"
        /\ f_state = "unopened" /\ out = <<>>
        /\ ~allevents_json.written
        /\ pc \in {"SystemExit", "CONFIG_EXIT"}

\* C13 witness: the run has ended after the config file failed to load
C13_Witness ==
    /\ pc = "CONFIG_EXIT"
    /\ Reported("client_init_error")
    /\ ValidDate(args.startdate) /\ ValidDate(args.enddate)

\* C14: an IOError while the output file is written is reported, and from
\* then on no record is pulled from the generator, no window is fetched and
\* nothing more is written to the output file, which may stay partial.
C14_IOErrorStopsAggregation ==
    [][/\ pc' = "ABORTED" =>
             /\ Reported("io_error")'
             /\ UNCHANGED <<gen_vars, item>>
       /\ Reported("io_error") =>
             /\ pc = "ABORTED"
             /\ UNCHANGED <<out, gen_vars, item, allevents_json>>]_vars

\* C14 witness: the write of the second element failed; the first element and
\* a separator are in the file, the array is not closed, a window is unfetched
C14_Witness ==
    /\ pc = "ABORTED" /\ Reported("io_error")
    /\ ObjectsIn(out) # <<>> /\ IsSeparator(out, Len(out))
    /\ Len(responses) < Len(date_chunks)

Ceil(a, b) == (a + b - 1) \div b

\* C15: _get_date_chunks terminates on every start and end and, for
\* start <= end, makes at most ceil((end - start) / MAX_CHUNK_DAYS days)
\* windows, one per iteration of its loop: each iteration starts strictly
\* later than the one before and never after end, so the loop cannot run
\* forever; for start > end it does not run at all.
C15_ChunksBoundedCount ==
    Partitioned =>
        /\ \A k \in 1..Len(date_chunks) :
              /\ date_chunks[k][1] <= streamer[1].end_dt
              /\ k > 1 => date_chunks[k - 1][1] < date_chunks[k][1]
        /\ IF streamer[1].start_dt <= streamer[1].end_dt
           THEN Len(date_chunks)
                   <= Ceil(streamer[1].end_dt - streamer[1].start_dt, max_duration)
           ELSE date_chunks = <<>>

\* C15 witness: a range of more than two full windows split into exactly
\* ceil((end - start) / MAX_CHUNK_DAYS days) windows
C15_Witness ==
    /\ Partitioned
    /\ streamer[1].end_dt - streamer[1].start_dt > 2 * max_duration
    /\ Len(date_chunks)
          = Ceil(streamer[1].end_dt - streamer[1].start_dt, max_duration)

NothingSelected ==
    \A n \in 1..Len(SucceededData) : ~Selected(SucceededData[n])

\* C16: when no record is written (no record was received, every window
\* failed, or the filter rejected every record) the closed output file is
\* exactly the opening bracket line and the closing bracket line, an empty
\* JSON array with no comma.
C16_EmptyArrayWhenNothingWritten ==
    (ArrayClosed /\ NothingSelected) =>
        /\ out = <<"[\n", "]\n">>
        /\ Loads(out).ok /\ Loads(out).val = <<>>

\* C16 witness: two records were received and the filter rejected both
C16_Witness ==
    /\ ArrayClosed
    /\ args.eventfilter.given
    /\ Len(SucceededData) = 2
    /\ NothingSelected
    /\ out = <<"[\n", "]\n">>

\* C17: when --startdate and --enddate name the same day the partitioner
\* makes exactly one window, from the start of the range (midnight of that
\* day) to its end (23:59:59 of that day).
C17_SameDayOneWindow ==
    (Partitioned /\ args.startdate = args.enddate) =>
        /\ Len(date_chunks) = 1
        /\ date_chunks[1][1] = streamer[1].start_dt
        /\ date_chunks[1][2] = streamer[1].end_dt
        /\ date_chunks[1][1] = ParseDate(args.startdate)
        /\ date_chunks[1][2] = ParseDate(args.startdate) + (SecondsPerDay - 1)

\* C17 witness: a run over the single day 2025-01-02 was partitioned
C17_Witness ==
    /\ Partitioned
    /\ args.startdate = <<2, 1, 25>>
    /\ args.enddate = <<2, 1, 25>>
    /\ Len(date_chunks) = 1

(***************************************************************************)
(* startstop.py                                                            *)
(***************************************************************************)
RETRY_COUNT == 5

\* values of --action (the default is "Start") and str.lower on them
ActionArgs == {"Start", "stop", "STOP", "status", "reboot"}

Lower(s) ==
    CASE s = "Start" -> "start"
      [] s = "STOP" -> "stop"
      [] OTHER -> s

\* the file of --config-file: unreadable, without an entry for --instance,
\* with an entry that lacks a mandatory parameter, or complete
ConfigFiles == {"unreadable", "no_entry", "no_param", "ok"}

LifecycleStates == {"STARTING", "RUNNING", "STOPPING", "STOPPED"}

NoName == <<>>

\* the run before main: the NSG may or may not already be on the VNIC
SSInit ==
    /\ ss_args \in [action : ActionArgs, list : BOOLEAN, config : ConfigFiles,
                    nsg_name : {NoName, <<"nsg">>}]
    /\ ss_pc = "main"
    /\ instance_id = <<>>
    /\ nsg_id = <<>>
    /\ vnic_id = <<>>
    /\ poll_i = 0
    /\ lifecycle_state = <<>>
    /\ nsg_ids \in BOOLEAN
    /\ calls = <<>>
    /\ ss_return = <<>>
    /\ LSInit({<<1, 1, 25>>}, {<<1, 1, 25>>}, {NoFilter})
    /\ config_loadable
    /\ LRIdle

\* main goes to position next; at "EXIT" it has returned value
GoTo(next, value) ==
    /\ ss_pc' = next
    /\ ss_return' = IF next = "EXIT" THEN <<value>> ELSE ss_return

\* lines 234-272
SSLoadConfig ==
    /\ ss_pc = "main"
    /\ IF ss_args.config = "unreadable" THEN GoTo("EXIT", "1")
       ELSE IF ss_args.list THEN GoTo("EXIT", "0")
       ELSE IF ss_args.config \in {"no_entry", "no_param"} THEN GoTo("EXIT", "1")
       ELSE GoTo("from_file", "")
    /\ UNCHANGED <<ss_args, instance_id, nsg_id, vnic_id, poll_i, lifecycle_state,
                   nsg_ids, calls>>
    /\ UNCHANGED <<ls_vars, lr_vars>>

\* lines 274-293: oci.config.from_file returns or raises
SSLoadOciConfig ==
    /\ ss_pc = "from_file"
    /\ \E ok \in BOOLEAN :
          GoTo(IF ok THEN "lookup_instance" ELSE "CRASHED", "")
    /\ UNCHANGED <<ss_args, instance_id, nsg_id, vnic_id, poll_i, lifecycle_state,
                   nsg_ids, calls>>
    /\ UNCHANGED <<ls_vars, lr_vars>>

\* lines 295-298 and 49-62: list_instances raises, or the name is found, or
\* it is not and the function returns None; main goes on either way
SSLookupInstance ==
    /\ ss_pc = "lookup_instance"
    /\ calls' = Append(calls, "list_instances")
    /\ \E result \in {"raises", "found", "not_found"} :
          /\ instance_id' = CASE result = "found" -> <<"ocid1.instance">>
                              [] result = "not_found" -> <<"None">>
                              [] OTHER -> instance_id
          /\ GoTo(IF result = "raises" THEN "CRASHED"
                  ELSE IF ss_args.nsg_name # NoName THEN "lookup_nsg"
                  ELSE "dispatch", "")
    /\ UNCHANGED <<ss_args, nsg_id, vnic_id, poll_i, lifecycle_state, nsg_ids>>
    /\ UNCHANGED <<ls_vars, lr_vars>>

\* lines 303-307 and 77-87
SSLookupNsg ==
    /\ ss_pc = "lookup_nsg"
    /\ calls' = Append(calls, "list_network_security_groups")
    /\ \E result \in {"raises", "found", "not_found"} :
          /\ nsg_id' = CASE result = "found" -> <<"ocid1.nsg">>
                         [] result = "not_found" -> <<"None">>
                         [] OTHER -> nsg_id
          /\ GoTo(CASE result = "raises" -> "CRASHED"
                    [] result = "found" -> "list_vnics"
                    [] OTHER -> "EXIT", "1")
    /\ UNCHANGED <<ss_args, instance_id, vnic_id, poll_i, lifecycle_state, nsg_ids>>
    /\ UNCHANGED <<ls_vars, lr_vars>>

\* lines 309-320 and 97-113: get_instance, then list_vnic_attachments; a
\* get_instance on the id None sends no valid request and raises
SSListVnics ==
    /\ ss_pc = "list_vnics"
    /\ \E result \in {"get_raises", "list_raises", "empty", "vnics"} :
          /\ instance_id = <<"None">> => result = "get_raises"
          /\ calls' = IF result = "get_raises" THEN Append(calls, "get_instance")
                      ELSE calls \o <<"get_instance", "list_vnic_attachments">>
          /\ vnic_id' = IF result = "vnics" THEN <<"ocid1.vnic">> ELSE vnic_id
          /\ GoTo(CASE result = "vnics" -> "dispatch"
                    [] result = "empty" -> "EXIT"
                    [] OTHER -> "CRASHED", "1")
    /\ UNCHANGED <<ss_args, instance_id, nsg_id, poll_i, lifecycle_state, nsg_ids>>
    /\ UNCHANGED <<ls_vars, lr_vars>>

\* lines 323-333 with the instance action first on start as well
FirstStep_ActionFirst(action, nsg_name) ==
    CASE action = "start" -> "instance_action"
      [] action = "stop" -> "instance_action"
      [] action = "status" -> "status"
      [] OTHER -> "usage"

\* lines 323-341: what main does first for the lowered action
FirstStep(action, nsg_name) ==
    CASE action = "start" ->
            IF nsg_name # NoName THEN "change_nsg" ELSE "instance_action"
      [] action = "stop" -> "instance_action"
      [] action = "status" -> "status"
      [] OTHER -> "usage"

\* lines 325-327 and 333: what main does after change_vnic_nsg_association
AfterNsgChange(action) ==
    IF action = "start" THEN "instance_action" ELSE "EXIT"

\* lines 327 and 330-333: what main does after start_stop_instance
AfterPolling(action, nsg_name) ==
    IF action = "stop" /\ nsg_name # NoName THEN "change_nsg" ELSE "EXIT"

SSDispatch ==
    /\ ss_pc = "dispatch"
    /\ GoTo(FirstStep(Lower(ss_args.action), ss_args.nsg_name), "None")
    /\ UNCHANGED <<ss_args, instance_id, nsg_id, vnic_id, poll_i, lifecycle_state,
                   nsg_ids, calls>>
    /\ UNCHANGED <<ls_vars, lr_vars>>

\* lines 115-154: add on start, remove on stop; no update when the VNIC
\* already is as wanted
SSChangeNsg ==
    /\ ss_pc = "change_nsg"
    /\ LET add == Lower(ss_args.action) = "start" IN
       \E result \in {"get_raises", "update_raises", "returns"} :
          /\ result = "update_raises" => nsg_ids # add
          /\ calls' = IF result = "get_raises" \/ nsg_ids = add
                      THEN Append(calls, "get_vnic")
                      ELSE calls \o <<"get_vnic",
                                      IF add THEN "update_vnic_add"
                                      ELSE "update_vnic_remove">>
          /\ nsg_ids' = IF result = "returns" THEN add ELSE nsg_ids
          /\ GoTo(IF result = "returns" THEN AfterNsgChange(Lower(ss_args.action))
                  ELSE "CRASHED", "None")
    /\ UNCHANGED <<ss_args, instance_id, nsg_id, vnic_id, poll_i, lifecycle_state>>
    /\ UNCHANGED <<ls_vars, lr_vars>>

\* lines 166-173 and 184-185: the call is made with whatever instance_id
\* holds; with None it cannot succeed
SSInstanceAction ==
    /\ ss_pc = "instance_action"
    /\ calls' = Append(calls, IF Lower(ss_args.action) = "start"
                              THEN "instance_action_START"
                              ELSE "instance_action_STOP")
    /\ \E ok \in BOOLEAN :
          /\ instance_id = <<"None">> => ~ok
          /\ GoTo(IF ok THEN "poll" ELSE "CRASHED", "")
    /\ poll_i' = 0
    /\ UNCHANGED <<ss_args, instance_id, nsg_id, vnic_id, lifecycle_state, nsg_ids>>
    /\ UNCHANGED <<ls_vars, lr_vars>>

\* line 186
PollAgain_OneMore(n) == n <= RETRY_COUNT

PollAgain(n) == n < RETRY_COUNT

\* lines 189-192
TargetReached(action, state) ==
    \/ action = "start" /\ state = "RUNNING"
    \/ action = "stop" /\ state = "STOPPED"

\* lines 186-194: one pass of the polling loop
SSPoll ==
    /\ ss_pc = "poll"
    /\ PollAgain(poll_i)
    /\ calls' = Append(calls, "get_instance")
    /\ \E state \in LifecycleStates \cup {"raises"} :
          IF state = "raises"
          THEN /\ GoTo("CRASHED", "")
               /\ UNCHANGED <<lifecycle_state, poll_i>>
          ELSE /\ lifecycle_state' = <<state>>
               /\ IF TargetReached(Lower(ss_args.action), state)
                  THEN /\ GoTo(AfterPolling(Lower(ss_args.action), ss_args.nsg_name),
                               "None")
                       /\ UNCHANGED poll_i
                  ELSE /\ poll_i' = poll_i + 1
                       /\ UNCHANGED <<ss_pc, ss_return>>
    /\ UNCHANGED <<ss_args, instance_id, nsg_id, vnic_id, nsg_ids>>
    /\ UNCHANGED <<ls_vars, lr_vars>>

\* lines 186 and 196: the loop ends without having seen the target state
SSPollGiveUp ==
    /\ ss_pc = "poll"
    /\ ~PollAgain(poll_i)
    /\ GoTo(AfterPolling(Lower(ss_args.action), ss_args.nsg_name), "None")
    /\ UNCHANGED <<ss_args, instance_id, nsg_id, vnic_id, poll_i, lifecycle_state,
                   nsg_ids, calls>>
    /\ UNCHANGED <<ls_vars, lr_vars>>

\* lines 174-178 and 337
SSStatus ==
    /\ ss_pc = "status"
    /\ calls' = Append(calls, "get_instance")
    /\ \E ok \in BOOLEAN :
          /\ instance_id = <<"None">> => ~ok
          /\ GoTo(IF ok THEN "EXIT" ELSE "CRASHED", "None")
    /\ UNCHANGED <<ss_args, instance_id, nsg_id, vnic_id, poll_i, lifecycle_state,
                   nsg_ids>>
    /\ UNCHANGED <<ls_vars, lr_vars>>

\* lines 339-341
SSUsage ==
    /\ ss_pc = "usage"
    /\ GoTo("EXIT", "None")
    /\ UNCHANGED <<ss_args, instance_id, nsg_id, vnic_id, poll_i, lifecycle_state,
                   nsg_ids, calls>>
    /\ UNCHANGED <<ls_vars, lr_vars>>

NextStartStop ==
    \/ SSLoadConfig
    \/ SSLoadOciConfig
    \/ SSLookupInstance
    \/ SSLookupNsg
    \/ SSListVnics
    \/ SSDispatch
    \/ SSChangeNsg
    \/ SSInstanceAction
    \/ SSPoll
    \/ SSPollGiveUp
    \/ SSStatus
    \/ SSUsage

\* one run of startstop.py
SpecStartStop == SSInit /\ [][NextStartStop]_vars

(***************************************************************************)
(* Vocabulary of the properties of startstop.py.                           *)
(***************************************************************************)
\* the call op was made before this step
Called(op) == \E n \in DOMAIN calls : calls[n] = op

\* this step makes the call op
Issues(op) ==
    \E n \in (Len(calls) + 1)..Len(calls') : calls'[n] = op

\* the polling loop of start_stop_instance was entered and left
PollingFinished ==
    /\ ss_pc # "poll"
    /\ lifecycle_state # <<>>
    /\ \/ TargetReached(Lower(ss_args.action), lifecycle_state[1])
       \/ poll_i = RETRY_COUNT

\* C18: with an NSG configured, on start the NSG is put on the VNIC
\* (change_vnic_nsg_association has returned, its update_vnic issued where one
\* was needed) before the instance START action is issued, and on stop the
\* update_vnic that removes the NSG is issued only after the STOP action
\* was issued and its polling loop has finished.
C18_NsgAroundRunningPeriod ==
    [][ss_args.nsg_name # NoName =>
          /\ Issues("instance_action_START") =>
                /\ Called("get_vnic") /\ nsg_ids
                /\ ~Issues("update_vnic_add")
          /\ Issues("update_vnic_add") =>
                /\ Lower(ss_args.action) = "start"
                /\ ~Called("instance_action_START")
          /\ Issues("instance_action_STOP") =>
                ~Called("get_vnic") /\ ~Called("update_vnic_remove")
          /\ (Issues("get_vnic") /\ Lower(ss_args.action) = "stop") =>
                Called("instance_action_STOP") /\ PollingFinished
          /\ Issues("update_vnic_remove") =>
                /\ Lower(ss_args.action) = "stop"
                /\ Called("instance_action_STOP") /\ PollingFinished]_vars

\* C18 witness: a stop that never saw STOPPED gave up polling and then took
\* the NSG off the VNIC
C18_Witness ==
    /\ ss_pc = "EXIT"
    /\ Called("instance_action_STOP")
    /\ poll_i = RETRY_COUNT
    /\ calls[Len(calls)] = "update_vnic_remove"
    /\ ~nsg_ids

\* C19: when lookup_instance_ocid_by_name returned None, main makes no call
\* that changes state: no instance_action START or STOP, no update_vnic.
C19_NoActionWithoutInstance ==
    instance_id = <<"None">> =>
        /\ ~Called("instance_action_START")
        /\ ~Called("instance_action_STOP")
        /\ ~Called("update_vnic_add")
        /\ ~Called("update_vnic_remove")

\* position in calls of the instance_action call, 0 when none was made
ActionIndex ==
    IF Called("instance_action_START") \/ Called("instance_action_STOP")
    THEN CHOOSE n \in DOMAIN calls :
            calls[n] \in {"instance_action_START", "instance_action_STOP"}
    ELSE 0

\* get_instance calls of the polling loop
PollCalls ==
    IF ActionIndex = 0 THEN 0
    ELSE Cardinality({n \in DOMAIN calls :
                         n > ActionIndex /\ calls[n] = "get_instance"})

\* C20: on start and stop the polling loop of start_stop_instance ends: it
\* calls get_instance at most RETRY_COUNT times whatever states come back
\* (every pass that stays in the loop counts i up towards RETRY_COUNT), and
\* the first poll that sees the target state (RUNNING on start, STOPPED on
\* stop) is the last one.
C20_PollingBounded ==
    [][/\ PollCalls' <= RETRY_COUNT
       /\ (ss_pc = "poll" /\ ss_pc' = "poll") =>
             /\ poll_i' = poll_i + 1
             /\ poll_i' <= RETRY_COUNT
             /\ PollCalls' = poll_i'
             /\ ~TargetReached(Lower(ss_args.action), lifecycle_state'[1])
       /\ (ss_pc = "poll" /\ lifecycle_state' # lifecycle_state
              /\ TargetReached(Lower(ss_args.action), lifecycle_state'[1])) =>
             ss_pc' # "poll"
       /\ (ss_pc # "poll" /\ ss_pc' # "poll") => PollCalls' = PollCalls]_vars

\* C20 witness: a start that saw STARTING at every one of its RETRY_COUNT
\* polls and then gave up
C20_Witness ==
    /\ ss_pc = "EXIT"
    /\ Lower(ss_args.action) = "start"
    /\ PollCalls = RETRY_COUNT
    /\ lifecycle_state = <<"STARTING">>

(***************************************************************************)
(* listresources.py                                                        *)
(***************************************************************************)
maxRecursions == 10

\* largest compartment tree of the remote tenancy
MaxCompartments == 12

\* values of --resource: printing only, a list function that takes the
\* compartment, a list function that takes no argument, an unknown word
Resources == {"compartments", "compute", "block", "compute-scan"}

Shapes == {"chain", "star", "binary"}

\* the parent of compartment k > 1; compartment 1 is the root of the search
Parent(shape, k) ==
    CASE shape = "chain" -> k - 1
      [] shape = "star" -> 1
      [] OTHER -> k \div 2

\* compartment trees: n compartments of one shape, at most one of them
\* (inactive, 0 for none) not ACTIVE
CompartmentTrees ==
    {[n |-> n, shape |-> shape, inactive |-> inactive] :
        n \in 1..MaxCompartments, shape \in Shapes, inactive \in 0..MaxCompartments}

\* list_compartments(compartment_id = c): the children of c in any state
ListCompartments(t, c) ==
    SelectSeq([k \in 1..t.n |-> k], LAMBDA k : k > 1 /\ Parent(t.shape, k) = c)

LifecycleOf(t, c) == IF c = t.inactive THEN "DELETED" ELSE "ACTIVE"

\* lines 244-261: the function main stores in listFunction
ListFunction(resource) ==
    CASE resource = "compartments" -> "None"
      [] resource = "compute" -> "listCompute"
      [] resource = "block" -> "listBlockStorage"
      [] OTHER -> "unknown"

\* line 30: listFunction(compartment) fits the function's parameters
AcceptsCompartment(function) == function # "listBlockStorage"

LRInit ==
    /\ lr_args \in [resource : Resources, config : {"ok", "raises"}]
    /\ compartment_tree \in {t \in CompartmentTrees : t.inactive <= t.n}
    /\ lr_pc = "main"
    /\ totalProcessed = 0
    /\ frames = <<>>
    /\ processed = <<>>
    /\ LSInit({<<1, 1, 25>>}, {<<1, 1, 25>>}, {NoFilter})
    /\ config_loadable
    /\ SSIdle

\* lines 227-287: unknown resource returns 2; getConfig returns the config or
\* raises (it never returns None)
LRMain ==
    /\ lr_pc = "main"
    /\ lr_pc' = IF ListFunction(lr_args.resource) = "unknown" THEN "EXIT_2"
                ELSE IF lr_args.config = "raises" THEN "CRASHED"
                ELSE "call_root"
    /\ UNCHANGED <<lr_args, compartment_tree, totalProcessed, frames, processed>>
    /\ UNCHANGED <<ls_vars, ss_vars>>

\* line 44
IsActive(state) == state = "ACTIVE"

\* line 47
LimitNotHit_OffByOne(n) == maxRecursions = 0 \/ n <= maxRecursions

LimitNotHit(n) == maxRecursions = 0 \/ n < maxRecursions

\* the innermost active call of listResources
Top == frames[Len(frames)]

\* the compartment the for loop of the innermost call looks at
Child == Top.compartments[Top.k + 1]

\* <<the compartment listResources is about to be called on>>: the root from
\* main (line 290), or a child from the loop (lines 43-48); <<>> if none
Callee ==
    IF lr_pc = "call_root" THEN <<1>>
    ELSE IF /\ lr_pc = "loop"
            /\ Top.k < Len(Top.compartments)
            /\ IsActive(LifecycleOf(compartment_tree, Child))
            /\ LimitNotHit(totalProcessed)
         THEN <<Child>>
    ELSE <<>>

\* the callers, the loop of the innermost one moved on to its next child
Callers ==
    IF frames = <<>> THEN <<>>
    ELSE [frames EXCEPT ![Len(frames)].k = @ + 1]

\* lines 17-41 and 290 or 48: listResources is called and reaches its loop
LRCall ==
    /\ Callee # <<>>
    /\ AcceptsCompartment(ListFunction(lr_args.resource))
    /\ totalProcessed' = totalProcessed + 1
    /\ processed' = Append(processed, Callee[1])
    /\ frames' = Append(Callers,
                        [compartment_id |-> Callee[1],
                         compartments |-> ListCompartments(compartment_tree, Callee[1]),
                         k |-> 0,
                         level |-> Len(frames)])
    /\ lr_pc' = "loop"
    /\ UNCHANGED <<lr_args, compartment_tree>>
    /\ UNCHANGED <<ls_vars, ss_vars>>

\* lines 17-41: listResources is called and an exception ends the program:
\* a remote call fails, or listFunction does not take the compartment
LRCallRaises ==
    /\ Callee # <<>>
    /\ \E cause \in {"get_compartment", "listFunction", "list_compartments"} :
          /\ cause = "listFunction" => ListFunction(lr_args.resource) # "None"
          /\ cause = "list_compartments" =>
                AcceptsCompartment(ListFunction(lr_args.resource))
          /\ processed' = IF cause = "list_compartments"
                          THEN Append(processed, Callee[1]) ELSE processed
          /\ lr_pc' = IF /\ cause = "listFunction"
                         /\ ~AcceptsCompartment(ListFunction(lr_args.resource))
                      THEN "TypeError" ELSE "CRASHED"
    /\ totalProcessed' = totalProcessed + 1
    /\ UNCHANGED <<lr_args, compartment_tree, frames>>
    /\ UNCHANGED <<ls_vars, ss_vars>>

\* lines 43-47: the child is not ACTIVE or the limit is hit; next child
LRSkip ==
    /\ lr_pc = "loop"
    /\ Top.k < Len(Top.compartments)
    /\ Callee = <<>>
    /\ frames' = Callers
    /\ UNCHANGED <<lr_args, compartment_tree, lr_pc, totalProcessed, processed>>
    /\ UNCHANGED <<ls_vars, ss_vars>>

\* lines 43 and 48 or 290-299: the loop is over and the call returns
LRReturn ==
    /\ lr_pc = "loop"
    /\ Top.k = Len(Top.compartments)
    /\ frames' = SubSeq(frames, 1, Len(frames) - 1)
    /\ lr_pc' = IF Len(frames) = 1 THEN "EXIT" ELSE "loop"
    /\ UNCHANGED <<lr_args, compartment_tree, totalProcessed, processed>>
    /\ UNCHANGED <<ls_vars, ss_vars>>

NextListResources ==
    \/ LRMain
    \/ LRCall
    \/ LRCallRaises
    \/ LRSkip
    \/ LRReturn

\* one run of listresources.py
SpecListResources == LRInit /\ [][NextListResources]_vars

(***************************************************************************)
(* Vocabulary of the properties of listresources.py.                       *)
(***************************************************************************)
\* this step is a call of listResources (line 21 ran)
VisitStep == totalProcessed' = totalProcessed + 1

\* C21: in a traversal started by the one root call of main, totalProcessed
\* never exceeds maxRecursions whatever the compartment tree, the compartments
\* handed on are never more than totalProcessed, and a child compartment is
\* visited only if it is ACTIVE and totalProcessed was below the limit.
C21_ProcessedWithinLimit ==
    [][/\ totalProcessed' <= maxRecursions
       /\ Len(processed') <= totalProcessed'
       /\ totalProcessed' # totalProcessed => VisitStep
       /\ (VisitStep /\ lr_pc # "call_root") =>
             /\ lr_pc = "loop"
             /\ Top.k < Len(Top.compartments)
             /\ LifecycleOf(compartment_tree, Child) = "ACTIVE"
             /\ totalProcessed < maxRecursions
             /\ Parent(compartment_tree.shape, Child) = Top.compartment_id]_vars

\* C21 witness: a tree of more ACTIVE compartments than the limit; the run
\* ended after maxRecursions of them, the others skipped
C21_Witness ==
    /\ lr_pc = "EXIT"
    /\ compartment_tree.n > maxRecursions
    /\ compartment_tree.inactive = 0
    /\ totalProcessed = maxRecursions
    /\ Len(processed) = maxRecursions

\* the ACTIVE children of c, in the order list_compartments returns them
ActiveChildren(t, c) ==
    SelectSeq(ListCompartments(t, c), LAMBDA k : LifecycleOf(t, k) = "ACTIVE")

\* depth-first pre-order of the compartments reachable from c through ACTIVE
\* children: c, then the subtree of each ACTIVE child in turn
RECURSIVE PreOrder(_, _)
PreOrder(t, c) ==
    <<c>> \o Concat([m \in 1..Len(ActiveChildren(t, c)) |->
                        PreOrder(t, ActiveChildren(t, c)[m])])

\* the run is over and no remote call failed
TraversalEnded == lr_pc \in {"EXIT", "TypeError"}

\* C22: on a tree with at most maxRecursions compartments reachable from the
\* root through ACTIVE children, listResources ends having processed exactly
\* those compartments, each once, in depth-first pre-order (every compartment
\* before its descendants), and none below a child that is not ACTIVE.
C22_PreOrderTraversal ==
    (/\ TraversalEnded
     /\ Len(PreOrder(compartment_tree, 1)) <= maxRecursions) =>
        processed = PreOrder(compartment_tree, 1)

====
